---- MODULE Spec2Model ----
(***************************************************************************)
(* Model of crates/semantic_index/src/summary_index.rs: the SummaryIndex   *)
(* pipeline (scan -> digest -> cache check -> summarize -> persist) over   *)
(* the two heed tables file_digest_db and summary_db.                      *)
(*                                                                         *)
(* Option<T> values are sequences: <<>> is None and <<x>> is Some(x).      *)
(* Strings that the code inspects (paths, keys, summaries) are sequences   *)
(* of one-character strings.                                               *)
(***************************************************************************)
EXTENDS Integers, Sequences, FiniteSets, TLC

\* ------------------------------------------------------------------ bounds
\* Number of indexing runs started in one behaviour.
MaxRuns == 2
\* Number of on-disk changes made between runs in one behaviour.
MaxTouches == 1
\* Number of injected failures (I/O, database, provider) in one run.
MaxFaults == 1
\* Digester worker pool size, cx.num_cpus().
NumCpus == 2
\* A channel seen on its own: items offered beyond its capacity, and items its
\* slow receiver takes.
MaxOverflow == 2
\* Number of runs followed under fair scheduling.
MaxFairRuns == 1
MaxReceives == 2

\* ------------------------------------------------- constants of the program
PathsToDigestCap == 512
FilesCap == 2048
NeedsSummaryCap == 512
SummarizedCap == 512
ChunkSize == 4096
\* Drain thresholds of SummaryBacklog (the crate's summary_backlog module).
MaxFilesBeforeResummarize == 1
MaxBytesBeforeResummarize == 1

\* ------------------------------------------------------------------- data
None == <<>>
Some(x) == <<x>>

\* Worktree-relative paths, in the order worktree.files() yields them.
PathA == <<"a">>
PathB == <<"d", "/", "b">>
FileOrder == <<PathA, PathB>>
Paths == {FileOrder[i] : i \in 1..Len(FileOrder)}

\* File contents; a file's size on disk is the length of its contents.
Contents == {<<"x">>, <<"y", "y">>}
Mtimes == {None, Some(1), Some(2)}
InitMtimes == {None, Some(1)}

\* A file on disk: Option of [contents, mtime].
FileStates == {None} \cup {Some([contents |-> c, mtime |-> m]) : c \in Contents, m \in Mtimes}
InitFileStates == {None} \cup {Some([contents |-> c, mtime |-> m]) : c \in Contents, m \in InitMtimes}

\* blake3::Hasher over the contents, hex encoded: injective on Contents.
Blake3(contents) == <<"h">> \o contents
Digests == {Blake3(c) : c \in Contents}

\* The text the provider answers with for a prompt built from `code`.
ProviderText(code) == <<"S">> \o code

\* db_key_for_path: path.to_string_lossy().replace('/', "\0")
db_key_for_path(path) == [i \in 1..Len(path) |-> IF path[i] = "/" THEN "NUL" ELSE path[i]]

\* file.path.display().to_string(): the path's characters, separators kept.
path_display_to_string(path) == [i \in 1..Len(path) |-> path[i]]

Keys == {db_key_for_path(p) : p \in Paths} \cup {path_display_to_string(p) : p \in Paths}

\* The key under which summarize_files/persist_summaries store a path's FileDigest.
PersistKey(path) == path_display_to_string(path)

\* The key under which add_to_backlog looks a path's FileDigest up.
ScanKey(path) == db_key_for_path(path)

EmptyStore == [file_digest_db |-> [k \in Keys |-> None], summary_db |-> [d \in Digests |-> None]]

\* ------------------------------------------------------------ SummaryBacklog
EmptyBacklog == [p \in Paths |-> None]

backlog_insert(bl, path, size, mtime) == [bl EXCEPT ![path] = Some([size |-> size, mtime |-> mtime])]

RECURSIVE SumBytes(_, _)
SumBytes(bl, i) ==
    IF i = 0 THEN 0
    ELSE (IF bl[FileOrder[i]] = None THEN 0 ELSE bl[FileOrder[i]][1].size) + SumBytes(bl, i - 1)

backlog_len(bl) == Cardinality({p \in Paths : bl[p] # None})

backlog_needs_drain(bl) ==
    \/ backlog_len(bl) > MaxFilesBeforeResummarize
    \/ SumBytes(bl, Len(FileOrder)) > MaxBytesBeforeResummarize

RECURSIVE DrainFrom(_, _)
DrainFrom(bl, i) ==
    IF i > Len(FileOrder) THEN <<>>
    ELSE (IF bl[FileOrder[i]] = None THEN <<>>
          ELSE << [path |-> FileOrder[i], mtime |-> bl[FileOrder[i]][1].mtime] >>)
         \o DrainFrom(bl, i + 1)

\* drain(): every (path, mtime) held; the backlog is left empty by the caller.
backlog_drain(bl) == DrainFrom(bl, 1)

\* ---------------------------------------------------------------- state
VARIABLES
    disk,            \* [Paths -> FileStates]: the files on disk
    worktree,        \* the Snapshot the current run took of disk
    db,              \* the committed store: file_digest_db and summary_db
    txn,             \* the Persister's open write transaction: None or Some(store)
    backlog,         \* self.backlog, shared by all runs of this SummaryIndex
    phase,           \* "idle" or "running"
    result,          \* what the last joined run future returned
    runs,            \* runs started so far
    touches,         \* on-disk changes made so far
    scan,            \* Scanner task: pc, idx, snap (its read transaction), pending,
                     \* updated (Some(updated_entries) in a delta scan)
    paths_to_digest, \* channel Scanner -> Digester, of batches
    workers,         \* Digester workers: pc, pairs
    files,           \* channel Digester -> CacheChecker
    check,           \* CacheChecker task pc
    needs_summary,   \* channel CacheChecker -> Summarizer
    summ,            \* Summarizer task: pc, file
    summarized,      \* channel Summarizer -> Persister
    persist,         \* Persister task: pc, chunk, i, half (between a file's two
                     \* puts), before (the store when its transaction began)
    hist,            \* history of the current run, read only by the properties
    chan,            \* one bounded channel seen on its own: its capacity, the items
                     \* it holds and the counts of items offered, sent and received
    scans            \* two Scanner tasks running at once on the shared backlog: the
                     \* owner of the backlog's lock, each task's position inside
                     \* add_to_backlog, insertions per path, the batches drained

vars == <<disk, worktree, db, txn, backlog, phase, result, runs, touches, scan,
          paths_to_digest, workers, files, check, needs_summary, summ, summarized,
          persist, hist, chan, scans>>

pipeline == <<scan, paths_to_digest, workers, files, check, needs_summary, summ,
              summarized, persist>>

Workers == 1..NumCpus

ScanOff == [pc |-> "off", idx |-> 0, snap |-> None, pending |-> <<>>, updated |-> None]
WorkersOff == [w \in Workers |-> [pc |-> "off", pairs |-> <<>>]]
SummOff == [pc |-> "off", file |-> None]
PersistOff == [pc |-> "off", chunk |-> <<>>, i |-> 0, half |-> FALSE, before |-> None]

\* History of one run: whether it is a full scan, whether it repeats a full scan
\* that returned Ok without any failure over the same on-disk state, what the
\* scan inserted, the provider calls
\* per digest, the per-file and the fatal failures injected, and the
\* SummarizedFiles committed; whether the backlog was empty when the run began,
\* the sizes of the entries inserted (in order), the batches drained from the
\* backlog and the batches sent to the Digester (in order); the digests of the
\* contents for which the provider answered with text, in this run and ever; the
\* paths of the files the CacheChecker found in the summary cache; how many
\* files the Summarizer has received, how many answers the provider has given,
\* and whether the last answer was non-empty text; the batches the Digester
\* workers have received (in order), per path the UnsummarizedFiles emitted and
\* the loads that failed, and the workers that returned on a failed send; per
\* path the mtimes the Scanner put into the backlog (those of the entries a run
\* finds in the backlog included), the (path, mtime) pairs the Digester was given
\* with the contents it read for each, and the contents the provider was asked
\* about with the text it answered.
HistOff ==
    [full       |-> FALSE,
     unchanged  |-> FALSE,
     inserted   |-> {},
     calls      |-> [d \in Digests |-> 0],
     skipped    |-> {},
     fatal      |-> {},
     committed  |-> {},
     emptyStart |-> FALSE,
     sizes      |-> <<>>,
     drained    |-> <<>>,
     sent       |-> <<>>,
     answered   |-> {},
     hits       |-> {},
     received   |-> 0,
     responses  |-> 0,
     lastText   |-> FALSE,
     taken      |-> <<>>,
     emitted    |-> [p \in Paths |-> 0],
     loadFailed |-> [p \in Paths |-> 0],
     stopped    |-> {},
     everAnswered |-> {},
     scanned    |-> [p \in Paths |-> {}],
     digested   |-> {},
     responded  |-> {}]

HistNew(full, unchanged) ==
    [HistOff EXCEPT !.full = full, !.unchanged = unchanged]

\* No channel is looked at on its own.
ChanOff == [name |-> "none", cap |-> 0, senders |-> 0, len |-> 0, offered |-> 0,
            holding |-> 0, sent |-> 0, received |-> 0]

\* The Scanner tasks of a full scan and of a delta scan.
Scanners == {"full", "delta"}

\* No two scans are looked at together.
ScansOff ==
    [lock    |-> None,
     proc    |-> [s \in Scanners |-> [pc |-> "off", todo |-> <<>>, read |-> <<>>]],
     ins     |-> [p \in Paths |-> 0],
     batches |-> <<>>]

FaultBudget == Cardinality(hist.skipped) + Cardinality(hist.fatal) < MaxFaults

Init ==
    /\ disk \in [Paths -> InitFileStates]
    /\ worktree = [p \in Paths |-> None]
    /\ db = EmptyStore
    /\ txn = None
    /\ backlog = EmptyBacklog
    /\ phase = "idle"
    /\ result = "None"
    /\ runs = 0
    /\ touches = 0
    /\ scan = ScanOff
    /\ paths_to_digest = <<>>
    /\ workers = WorkersOff
    /\ files = <<>>
    /\ check = "off"
    /\ needs_summary = <<>>
    /\ summ = SummOff
    /\ summarized = <<>>
    /\ persist = PersistOff
    /\ hist = HistOff
    /\ chan = ChanOff
    /\ scans = ScansOff

\* ------------------------------------------------------------ environment
\* A file is created, deleted, rewritten or touched while no run is active.
Touch(p, f) ==
    /\ phase = "idle"
    /\ touches < MaxTouches
    /\ f # disk[p]
    /\ disk' = [disk EXCEPT ![p] = f]
    /\ touches' = touches + 1
    /\ UNCHANGED <<chan, scans, worktree, db, txn, backlog, phase, result, runs, pipeline, hist>>

\* ------------------------------------------------------------------ run
\* project::PathChange
LiveChanges == {"Loaded", "Added", "Updated", "AddedOrUpdated"}
PathChanges == LiveChanges \cup {"Removed"}

\* The UpdatedEntriesSets a delta scan may be given: entries in path order, each
\* path at most once, with any change status.
RECURSIVE EntriesFrom(_, _)
EntriesFrom(f, i) ==
    IF i > Len(FileOrder) THEN <<>>
    ELSE (IF f[FileOrder[i]] = "unlisted" THEN <<>>
          ELSE << [path |-> FileOrder[i], change |-> f[FileOrder[i]]] >>)
         \o EntriesFrom(f, i + 1)

\* The four live statuses take the same branch of the scanner's match, so one of
\* them stands for all in the entries a delta scan is given.
ChangesTried == {"Updated", "Removed"}

UpdatedEntriesSets ==
    {EntriesFrom(f, 1) : f \in [Paths -> ChangesTried \cup {"unlisted"}]}

\* Both entry points: snapshot the worktree and spawn the five stages; `updated`
\* is None for a full scan and Some(updated_entries) for a delta scan.
Spawn(updated) ==
    /\ phase = "idle"
    /\ runs < MaxRuns
    /\ persist.pc # "txn"
    /\ runs' = runs + 1
    /\ phase' = "running"
    /\ worktree' = disk
    /\ scan' = [ScanOff EXCEPT !.pc = "begin", !.updated = updated]
    /\ paths_to_digest' = <<>>
    /\ workers' = [w \in Workers |-> [pc |-> "recv", pairs |-> <<>>]]
    /\ files' = <<>>
    /\ check' = "recv"
    /\ needs_summary' = <<>>
    /\ summ' = [SummOff EXCEPT !.pc = "recv"]
    /\ summarized' = <<>>
    /\ persist' = [PersistOff EXCEPT !.pc = "recv"]
    /\ hist' = [HistNew(updated = None,
                        /\ updated = None
                        /\ runs > 0
                        /\ hist.full
                        /\ result = "Ok"
                        /\ hist.skipped = {} /\ hist.fatal = {}
                        /\ worktree = disk)
                EXCEPT !.emptyStart = (backlog = EmptyBacklog),
                       !.everAnswered = hist.everAnswered,
                       !.scanned = [p \in Paths |-> IF backlog[p] = None THEN {}
                                                    ELSE {backlog[p][1].mtime}]]
    /\ UNCHANGED <<chan, scans, disk, db, txn, backlog, result, touches>>

\* index_entries_changed_on_disk
StartRun == Spawn(None)

\* index_updated_entries
StartUpdatedRun == \E updated_entries \in UpdatedEntriesSets : Spawn(Some(updated_entries))

\* A stage task has returned (Ok or Err): its channel ends are dropped.
Ended(pc) == pc \in {"done", "err"}
\* Mutant of ScanEnded: the Scanner's sender is never seen as dropped.
ScanSenderKept == FALSE
ScanEnded == Ended(scan.pc)
DigestEnded == \A w \in Workers : workers[w].pc = "done"
CheckEnded == Ended(check)
SummEnded == Ended(summ.pc)
PersistEnded == Ended(persist.pc)

\* --------------------------------------------------------------- Scanner
\* Index in FileOrder of the first file of the snapshot at or after i.
RECURSIVE NextFile(_, _)
NextFile(tree, i) ==
    IF i > Len(FileOrder) THEN i
    ELSE IF tree[FileOrder[i]] # None THEN i
    ELSE NextFile(tree, i + 1)

\* opt_saved_digest.and_then(|digest| digest.mtime)
SavedMtime(opt_saved_digest) ==
    IF opt_saved_digest = None THEN None ELSE opt_saved_digest[1].mtime

\* The Scanner's decision in add_to_backlog: the entry's mtime differs from the
\* mtime of the FileDigest saved under the entry's key (None when none is saved).
needs_recheck(digest_db, path, entry) ==
    entry.mtime # SavedMtime(digest_db[ScanKey(path)])

\* Mutant of add_to_backlog: the needs_drain branch is left out.
add_to_backlog_never_drains(bl, digest_db, path, entry, getOk) ==
    IF getOk /\ needs_recheck(digest_db, path, entry)
    THEN [backlog |-> backlog_insert(bl, path, Len(entry.contents), entry.mtime),
          batch |-> <<>>, inserted |-> TRUE]
    ELSE [backlog |-> bl, batch |-> <<>>, inserted |-> FALSE]

\* add_to_backlog: the backlog afterwards, the batch returned, whether it inserted.
add_to_backlog(bl, digest_db, path, entry, getOk) ==
    IF ~getOk THEN [backlog |-> bl, batch |-> <<>>, inserted |-> FALSE]
    ELSE IF needs_recheck(digest_db, path, entry)
    THEN LET b1 == backlog_insert(bl, path, Len(entry.contents), entry.mtime)
         IN  IF backlog_needs_drain(b1)
             THEN [backlog |-> EmptyBacklog, batch |-> backlog_drain(b1), inserted |-> TRUE]
             ELSE [backlog |-> b1, batch |-> <<>>, inserted |-> TRUE]
    ELSE [backlog |-> bl, batch |-> <<>>, inserted |-> FALSE]

\* scan_entries and scan_updated_entries: open the read transaction held for the
\* whole scan.
ScanBegin ==
    /\ phase = "running"
    /\ scan.pc = "begin"
    /\ \E ok \in BOOLEAN :
        IF ok
        THEN /\ scan' = [scan EXCEPT !.pc = "scan",
                                     !.idx = IF scan.updated = None
                                             THEN NextFile(worktree, 1) ELSE 1,
                                     !.snap = Some(db.file_digest_db)]
             /\ hist' = hist
        ELSE /\ FaultBudget
             /\ scan' = [scan EXCEPT !.pc = "err"]
             /\ hist' = [hist EXCEPT !.fatal = @ \cup {"scan_read_txn"}]
    /\ UNCHANGED <<chan, scans, disk, worktree, db, txn, backlog, phase, result, runs, touches,
                   paths_to_digest, workers, files, check, needs_summary, summ,
                   summarized, persist>>

\* One iteration of `for entry in worktree.files(false, 0)`, up to the send.
ScanEntry ==
    /\ phase = "running"
    /\ scan.pc = "scan"
    /\ scan.updated = None
    /\ scan.idx <= Len(FileOrder)
    /\ \E getOk \in BOOLEAN :
        /\ getOk \/ FaultBudget
        /\ LET path == FileOrder[scan.idx]
               r == add_to_backlog(backlog, scan.snap[1], path, worktree[path][1], getOk)
           IN  /\ backlog' = r.backlog
               /\ scan' = [scan EXCEPT !.pc = IF r.batch = <<>> THEN "scan" ELSE "send",
                                       !.pending = r.batch,
                                       !.idx = NextFile(worktree, scan.idx + 1)]
               /\ hist' = [hist EXCEPT
                              !.inserted = IF r.inserted THEN @ \cup {path} ELSE @,
                              !.scanned[path] = IF r.inserted
                                                THEN @ \cup {worktree[path][1].mtime} ELSE @,
                              !.sizes = IF r.inserted
                                        THEN Append(@, Len(worktree[path][1].contents)) ELSE @,
                              !.drained = IF r.batch # <<>> THEN Append(@, r.batch) ELSE @,
                              !.skipped = IF getOk THEN @ ELSE @ \cup {<<"digest_get", path>>}]
    /\ UNCHANGED <<chan, scans, disk, worktree, db, txn, phase, result, runs, touches,
                   paths_to_digest, workers, files, check, needs_summary, summ,
                   summarized, persist>>

\* One iteration of `for (path, entry_id, status) in updated_entries.iter()`, up
\* to the send: a live status whose entry is still a file of the snapshot goes to
\* add_to_backlog, anything else is passed over.
ScanUpdatedEntry ==
    /\ phase = "running"
    /\ scan.pc = "scan"
    /\ scan.updated # None
    /\ scan.idx <= Len(scan.updated[1])
    /\ LET e == scan.updated[1][scan.idx] IN
       IF e.change \in LiveChanges /\ worktree[e.path] # None
       THEN \E getOk \in BOOLEAN :
            /\ getOk \/ FaultBudget
            /\ LET r == add_to_backlog(backlog, scan.snap[1], e.path, worktree[e.path][1], getOk)
               IN  /\ backlog' = r.backlog
                   /\ scan' = [scan EXCEPT !.pc = IF r.batch = <<>> THEN "scan" ELSE "send",
                                           !.pending = r.batch,
                                           !.idx = @ + 1]
                   /\ hist' = [hist EXCEPT
                                  !.inserted = IF r.inserted THEN @ \cup {e.path} ELSE @,
                                  !.scanned[e.path] =
                                      IF r.inserted
                                      THEN @ \cup {worktree[e.path][1].mtime} ELSE @,
                                  !.sizes = IF r.inserted
                                            THEN Append(@, Len(worktree[e.path][1].contents))
                                            ELSE @,
                                  !.drained = IF r.batch # <<>> THEN Append(@, r.batch) ELSE @,
                                  !.skipped = IF getOk THEN @
                                              ELSE @ \cup {<<"digest_get", e.path>>}]
       ELSE /\ scan' = [scan EXCEPT !.idx = @ + 1]
            /\ UNCHANGED <<backlog, hist>>
    /\ UNCHANGED <<chan, scans, disk, worktree, db, txn, phase, result, runs, touches,
                   paths_to_digest, workers, files, check, needs_summary, summ,
                   summarized, persist>>

\* tx.send(needs_summary).await?
ScanSend ==
    /\ phase = "running"
    /\ scan.pc = "send"
    /\ IF DigestEnded
       THEN /\ scan' = [scan EXCEPT !.pc = "err", !.pending = <<>>]
            /\ UNCHANGED <<paths_to_digest, hist>>
       ELSE /\ Len(paths_to_digest) < PathsToDigestCap
            /\ paths_to_digest' = Append(paths_to_digest, scan.pending)
            /\ scan' = [scan EXCEPT !.pc = "scan", !.pending = <<>>]
            /\ hist' = [hist EXCEPT !.sent = Append(@, scan.pending)]
    /\ UNCHANGED <<chan, scans, disk, worktree, db, txn, backlog, phase, result, runs, touches,
                   workers, files, check, needs_summary, summ, summarized, persist>>

\* The loop is over: the task returns Ok(()).
ScanEnd ==
    /\ phase = "running"
    /\ scan.pc = "scan"
    /\ scan.idx > (IF scan.updated = None THEN Len(FileOrder) ELSE Len(scan.updated[1]))
    /\ scan' = [scan EXCEPT !.pc = "done", !.snap = None, !.idx = 0, !.updated = None]
    /\ UNCHANGED <<chan, scans, disk, worktree, db, txn, backlog, phase, result, runs, touches,
                   paths_to_digest, workers, files, check, needs_summary, summ,
                   summarized, persist, hist>>

\* --------------------------------------------------------------- Digester
\* Mutant of DigestRecv: the batch is read but stays in the channel.
DigestRecvPeek(w) ==
    /\ phase = "running"
    /\ workers[w].pc = "recv"
    /\ paths_to_digest # <<>>
    /\ workers' = [workers EXCEPT ![w] = [pc |-> "work", pairs |-> Head(paths_to_digest)]]
    /\ hist' = [hist EXCEPT !.taken = Append(@, Head(paths_to_digest))]
    /\ UNCHANGED <<chan, scans, disk, worktree, db, txn, backlog, phase, result, runs, touches, scan,
                   paths_to_digest, files, check, needs_summary, summ, summarized, persist>>

\* paths.recv().await in a worker: a batch, or the end of the worker once the
\* Scanner has dropped its sender and the channel is empty.
DigestRecv(w) ==
    /\ phase = "running"
    /\ workers[w].pc = "recv"
    /\ IF paths_to_digest # <<>>
       THEN /\ workers' = [workers EXCEPT ![w] = [pc |-> "work", pairs |-> Head(paths_to_digest)]]
            /\ paths_to_digest' = Tail(paths_to_digest)
            /\ hist' = [hist EXCEPT !.taken = Append(@, Head(paths_to_digest))]
       ELSE /\ ScanEnded
            /\ workers' = [workers EXCEPT ![w] = [pc |-> "done", pairs |-> <<>>]]
            /\ UNCHANGED <<paths_to_digest, hist>>
    /\ UNCHANGED <<chan, scans, disk, worktree, db, txn, backlog, phase, result, runs, touches, scan,
                   files, check, needs_summary, summ, summarized, persist>>

\* Mutant of Unsummarized: the digest is that of another file's contents.
UnsummarizedWithOtherDigest(pair, contents) ==
    [path |-> pair.path, mtime |-> pair.mtime, digest |-> Blake3(<<"x">>), contents |-> contents]

\* The UnsummarizedFile built from a loaded file.
Unsummarized(pair, contents) ==
    [path |-> pair.path, mtime |-> pair.mtime, digest |-> Blake3(contents), contents |-> contents]

\* The worker after the pair at the head of its batch.
WorkerNext(wk) ==
    IF Len(wk.pairs) = 1 THEN [pc |-> "recv", pairs |-> <<>>]
    ELSE [pc |-> "work", pairs |-> Tail(wk.pairs)]

\* Mutant of WorkerAfterLoadError: the worker returns instead of continuing.
WorkerReturnsOnLoadError(wk) == [pc |-> "done", pairs |-> <<>>]

\* `else { continue; }`: the worker after a file it could not load.
WorkerAfterLoadError(wk) == WorkerNext(wk)

\* One iteration of `for (path, mtime) in pairs`: fs.load, hash, send.
DigestFile(w) ==
    /\ phase = "running"
    /\ workers[w].pc = "work"
    /\ LET pair == Head(workers[w].pairs) IN
       \E loadOk \in BOOLEAN :
        IF loadOk /\ disk[pair.path] # None
        THEN /\ IF CheckEnded
                THEN /\ workers' = [workers EXCEPT ![w] = [pc |-> "done", pairs |-> <<>>]]
                     /\ hist' = [hist EXCEPT !.stopped = @ \cup {w}]
                     /\ UNCHANGED files
                ELSE /\ Len(files) < FilesCap
                     /\ files' = Append(files, Unsummarized(pair, disk[pair.path][1].contents))
                     /\ workers' = [workers EXCEPT ![w] = WorkerNext(@)]
                     /\ hist' = [hist EXCEPT
                                    !.emitted[pair.path] = @ + 1,
                                    !.digested = @ \cup {[path |-> pair.path,
                                                          mtime |-> pair.mtime,
                                                          contents |-> disk[pair.path][1].contents]}]
        ELSE /\ disk[pair.path] = None \/ FaultBudget
             /\ ~loadOk
             /\ hist' = [hist EXCEPT !.skipped = @ \cup {<<"load", pair.path>>},
                                     !.loadFailed[pair.path] = @ + 1]
             /\ workers' = [workers EXCEPT ![w] = WorkerAfterLoadError(@)]
             /\ UNCHANGED files
    /\ UNCHANGED <<chan, scans, disk, worktree, db, txn, backlog, phase, result, runs, touches, scan,
                   paths_to_digest, check, needs_summary, summ, summarized, persist>>

\* ------------------------------------------------------------ CacheChecker
\* One iteration of check_summary_cache's loop: read_txn, db.get, send on a miss.
CheckFile ==
    /\ phase = "running"
    /\ check = "recv"
    /\ files # <<>>
    /\ files' = Tail(files)
    /\ LET file == Head(files) IN
       \E txnOk \in BOOLEAN, getOk \in BOOLEAN :
        IF ~txnOk
        THEN /\ getOk
             /\ FaultBudget
             /\ check' = "err"
             /\ hist' = [hist EXCEPT !.fatal = @ \cup {"check_read_txn"}]
             /\ UNCHANGED needs_summary
        ELSE IF ~getOk
        THEN /\ FaultBudget
             /\ check' = check
             /\ hist' = [hist EXCEPT !.skipped = @ \cup {<<"summary_get", file.path>>}]
             /\ UNCHANGED needs_summary
        ELSE /\ hist' = IF db.summary_db[file.digest] # None
                        THEN [hist EXCEPT !.hits = @ \cup {file.path}]
                        ELSE hist
             /\ IF db.summary_db[file.digest] # None
                THEN UNCHANGED <<check, needs_summary>>
                ELSE IF SummEnded
                THEN /\ check' = "err"
                     /\ UNCHANGED needs_summary
                ELSE /\ Len(needs_summary) < NeedsSummaryCap
                     /\ needs_summary' = Append(needs_summary, file)
                     /\ check' = check
    /\ UNCHANGED <<chan, scans, disk, worktree, db, txn, backlog, phase, result, runs, touches, scan,
                   paths_to_digest, workers, summ, summarized, persist>>

\* might_need_summary.next() yields None: every Digester sender is dropped.
CheckEnd ==
    /\ phase = "running"
    /\ check = "recv"
    /\ files = <<>>
    /\ DigestEnded
    /\ check' = "done"
    /\ UNCHANGED <<chan, scans, disk, worktree, db, txn, backlog, phase, result, runs, touches, scan,
                   paths_to_digest, workers, files, needs_summary, summ, summarized,
                   persist, hist>>

\* -------------------------------------------------------------- Summarizer
\* Mutant of summarize_code: the provider's error is returned as the summary.
summarize_code_returns_error(code, answer) ==
    IF answer = "text" THEN ProviderText(code)
    ELSE IF answer = "error" THEN <<"E">>
    ELSE <<>>

\* summarize_code's tail: the provider's answer, or String::new() on its failure.
summarize_code(code, answer) ==
    IF answer = "text" THEN ProviderText(code)
    ELSE <<>>

\* Mutant of Summarized: the file's mtime is not carried over.
SummarizedWithoutMtime(file, summary) ==
    [path |-> path_display_to_string(file.path), mtime |-> None,
     digest |-> file.digest, summary |-> summary]

\* The SummarizedFile built from a file and its summary.
Summarized(file, summary) ==
    [path |-> path_display_to_string(file.path), mtime |-> file.mtime,
     digest |-> file.digest, summary |-> summary]

\* unsummarized_files.next() and the head of summarize_code: resolve the model
\* and issue the request.
SummRecv ==
    /\ phase = "running"
    /\ summ.pc = "recv"
    /\ needs_summary # <<>>
    /\ needs_summary' = Tail(needs_summary)
    /\ \E modelOk \in BOOLEAN :
        IF modelOk
        THEN /\ summ' = [pc |-> "calling", file |-> Some(Head(needs_summary))]
             /\ hist' = [hist EXCEPT !.calls[Head(needs_summary).digest] = @ + 1,
                                     !.received = @ + 1]
        ELSE /\ FaultBudget
             /\ summ' = [pc |-> "err", file |-> None]
             /\ hist' = [hist EXCEPT !.fatal = @ \cup {"model"}, !.received = @ + 1]
    /\ UNCHANGED <<chan, scans, disk, worktree, db, txn, backlog, phase, result, runs, touches, scan,
                   paths_to_digest, workers, files, check, summarized, persist>>

\* The provider answers; a non-empty summary is sent to the Persister.
SummResponse ==
    /\ phase = "running"
    /\ summ.pc = "calling"
    /\ \E answer \in {"text", "empty", "error"} :
        LET file == summ.file[1]
            summary == summarize_code(file.contents, answer)
        IN  IF summary # <<>>
            THEN /\ hist' = IF answer = "text"
                            THEN [hist EXCEPT !.answered = @ \cup {file.digest},
                                              !.everAnswered = @ \cup {file.digest},
                                              !.responses = @ + 1,
                                              !.lastText = TRUE,
                                              !.responded = @ \cup {[contents |-> file.contents,
                                                                     text |-> summary]}]
                            ELSE [hist EXCEPT !.responses = @ + 1, !.lastText = FALSE]
                 /\ IF PersistEnded
                    THEN /\ summ' = [pc |-> "err", file |-> None]
                         /\ UNCHANGED summarized
                    ELSE /\ Len(summarized) < SummarizedCap
                         /\ summarized' = Append(summarized, Summarized(file, summary))
                         /\ summ' = [pc |-> "recv", file |-> None]
            ELSE /\ FaultBudget
                 /\ hist' = [hist EXCEPT !.skipped = @ \cup {<<"provider", file.path>>},
                                         !.responses = @ + 1,
                                         !.lastText = FALSE]
                 /\ summ' = [pc |-> "recv", file |-> None]
                 /\ UNCHANGED summarized
    /\ UNCHANGED <<chan, scans, disk, worktree, db, txn, backlog, phase, result, runs, touches, scan,
                   paths_to_digest, workers, files, check, needs_summary, persist>>

SummEnd ==
    /\ phase = "running"
    /\ summ.pc = "recv"
    /\ needs_summary = <<>>
    /\ CheckEnded
    /\ summ' = [pc |-> "done", file |-> None]
    /\ UNCHANGED <<chan, scans, disk, worktree, db, txn, backlog, phase, result, runs, touches, scan,
                   paths_to_digest, workers, files, check, needs_summary, summarized,
                   persist, hist>>

\* --------------------------------------------------------------- Persister
\* chunks_timeout(4096, 2s) takes one more item into the chunk it is collecting.
PersistRecv ==
    /\ phase = "running"
    /\ persist.pc = "recv"
    /\ summarized # <<>>
    /\ Len(persist.chunk) < ChunkSize
    /\ persist' = [persist EXCEPT !.chunk = Append(@, Head(summarized))]
    /\ summarized' = Tail(summarized)
    /\ UNCHANGED <<chan, scans, disk, worktree, db, txn, backlog, phase, result, runs, touches, scan,
                   paths_to_digest, workers, files, check, needs_summary, summ, hist>>

\* Mutant of PersistBegin: chunks(4096) without the timer, a chunk is yielded only
\* when it is full or the stream has ended.
PersistBeginWithoutTimer ==
    /\ phase = "running"
    /\ persist.pc = "recv"
    /\ persist.chunk # <<>>
    /\ \/ Len(persist.chunk) = ChunkSize
       \/ summarized = <<>> /\ SummEnded
    /\ persist' = [persist EXCEPT !.pc = "txn", !.i = 1, !.half = FALSE, !.before = Some(db)]
    /\ txn' = Some(db)
    /\ UNCHANGED <<chan, scans, disk, worktree, db, backlog, phase, result, runs, touches, scan,
                   paths_to_digest, workers, files, check, needs_summary, summ, summarized,
                   hist>>

\* The chunk is yielded (it is full, its 2 s timer fired, or the stream ended) and
\* db_connection.write_txn()? opens the write transaction.
PersistBegin ==
    /\ phase = "running"
    /\ persist.pc = "recv"
    /\ persist.chunk # <<>>
    /\ \E trigger \in {"full", "timeout", "closed"} :
        /\ trigger = "full" => Len(persist.chunk) = ChunkSize
        /\ trigger = "closed" => summarized = <<>> /\ SummEnded
    /\ \E ok \in BOOLEAN :
        IF ok
        THEN /\ persist' = [persist EXCEPT !.pc = "txn", !.i = 1, !.half = FALSE,
                                           !.before = Some(db)]
             /\ txn' = Some(db)
             /\ hist' = hist
        ELSE /\ FaultBudget
             /\ persist' = [persist EXCEPT !.pc = "err", !.chunk = <<>>]
             /\ txn' = txn
             /\ hist' = [hist EXCEPT !.fatal = @ \cup {"write_txn"}]
    /\ UNCHANGED <<chan, scans, disk, worktree, db, backlog, phase, result, runs, touches, scan,
                   paths_to_digest, workers, files, check, needs_summary, summ, summarized>>

\* The Persister task after an error inside the transaction: the RwTxn is dropped
\* uncommitted. A task whose run has already returned just ends.
PersistFailed == [PersistOff EXCEPT !.pc = IF phase = "running" THEN "err" ELSE "off"]

\* digest_db.put(&mut txn, &file.path, &FileDigest { mtime, digest }) on the
\* transaction's working copy.
put_file_digest(working, file) ==
    [working EXCEPT !.file_digest_db[file.path] =
        Some([mtime |-> file.mtime, digest |-> file.digest])]

\* Mutant of put_summary: the summary put is left out.
put_summary_forgotten(working, file) == working

\* summary_db.put(&mut txn, &file.digest, &file.summary) on the working copy.
put_summary(working, file) ==
    [working EXCEPT !.summary_db[file.digest] = Some(file.summary)]

\* What txn.commit() leaves as the store.
Commit(store, working) == working

\* Mutant of txn_dropped: the writes made so far reach the store.
txn_dropped_keeps_writes(store, working) == working

\* What an early return by `?` leaves as the store: the RwTxn is dropped
\* uncommitted and its writes are discarded.
txn_dropped(store, working) == store

\* First put of a file inside the transaction.
PersistPutDigest ==
    /\ persist.pc = "txn"
    /\ persist.i <= Len(persist.chunk)
    /\ ~persist.half
    /\ LET file == persist.chunk[persist.i] IN
       \E ok \in BOOLEAN :
        IF ok
        THEN /\ txn' = Some(put_file_digest(txn[1], file))
             /\ db' = db
             /\ persist' = [persist EXCEPT !.half = TRUE]
             /\ hist' = hist
        ELSE /\ FaultBudget
             /\ txn' = None
             /\ db' = txn_dropped(db, txn[1])
             /\ persist' = PersistFailed
             /\ hist' = [hist EXCEPT !.fatal = @ \cup {"put"}]
    /\ UNCHANGED <<chan, scans, disk, worktree, backlog, phase, result, runs, touches, scan,
                   paths_to_digest, workers, files, check, needs_summary, summ, summarized>>

\* Second put of a file inside the transaction.
PersistPutSummary ==
    /\ persist.pc = "txn"
    /\ persist.i <= Len(persist.chunk)
    /\ persist.half
    /\ LET file == persist.chunk[persist.i] IN
       \E ok \in BOOLEAN :
        IF ok
        THEN /\ txn' = Some(put_summary(txn[1], file))
             /\ db' = db
             /\ persist' = [persist EXCEPT !.half = FALSE, !.i = @ + 1]
             /\ hist' = hist
        ELSE /\ FaultBudget
             /\ txn' = None
             /\ db' = txn_dropped(db, txn[1])
             /\ persist' = PersistFailed
             /\ hist' = [hist EXCEPT !.fatal = @ \cup {"put"}]
    /\ UNCHANGED <<chan, scans, disk, worktree, backlog, phase, result, runs, touches, scan,
                   paths_to_digest, workers, files, check, needs_summary, summ, summarized>>

\* txn.commit()?
PersistCommit ==
    /\ persist.pc = "txn"
    /\ persist.i > Len(persist.chunk)
    /\ \E ok \in BOOLEAN :
        IF ok
        THEN /\ db' = Commit(db, txn[1])
             /\ persist' = [PersistOff EXCEPT !.pc = IF phase = "running" THEN "recv" ELSE "off"]
             /\ hist' = [hist EXCEPT !.committed =
                            @ \cup {persist.chunk[j] : j \in 1..Len(persist.chunk)}]
        ELSE /\ FaultBudget
             /\ db' = txn_dropped(db, txn[1])
             /\ persist' = PersistFailed
             /\ hist' = [hist EXCEPT !.fatal = @ \cup {"commit"}]
    /\ txn' = None
    /\ UNCHANGED <<chan, scans, disk, worktree, backlog, phase, result, runs, touches, scan,
                   paths_to_digest, workers, files, check, needs_summary, summ, summarized>>

\* The stream of chunks is over: the task returns Ok(()).
PersistEnd ==
    /\ phase = "running"
    /\ persist.pc = "recv"
    /\ persist.chunk = <<>>
    /\ summarized = <<>>
    /\ SummEnded
    /\ persist' = [persist EXCEPT !.pc = "done"]
    /\ UNCHANGED <<chan, scans, disk, worktree, db, txn, backlog, phase, result, runs, touches, scan,
                   paths_to_digest, workers, files, check, needs_summary, summ,
                   summarized, hist>>

\* ------------------------------------------------------------------- join
\* Mutant of AllOk: the Persister's result is not looked at.
AllOkIgnoringPersist ==
    /\ scan.pc = "done"
    /\ DigestEnded
    /\ check = "done"
    /\ summ.pc = "done"
    /\ PersistEnded

\* try_join!: every one of the five tasks returned Ok.
AllOk ==
    /\ scan.pc = "done"
    /\ DigestEnded
    /\ check = "done"
    /\ summ.pc = "done"
    /\ persist.pc = "done"

AnyErr == "err" \in {scan.pc, check, summ.pc, persist.pc}

\* try_join! sees all five tasks Ok: the run future returns Ok(()).
RunOk ==
    /\ phase = "running"
    /\ AllOk
    /\ phase' = "idle"
    /\ result' = "Ok"
    /\ UNCHANGED <<chan, scans, disk, worktree, db, txn, backlog, runs, touches, pipeline, hist>>

\* try_join! sees a task's Err: the run future returns it and drops the other
\* tasks, which cancels each at its next await. A Persister inside its
\* transaction has no await before the commit and runs on to it.
RunErr ==
    /\ phase = "running"
    /\ AnyErr
    /\ phase' = "idle"
    /\ result' = "Err"
    /\ scan' = ScanOff
    /\ paths_to_digest' = <<>>
    /\ workers' = WorkersOff
    /\ files' = <<>>
    /\ check' = "off"
    /\ needs_summary' = <<>>
    /\ summ' = SummOff
    /\ summarized' = <<>>
    /\ persist' = IF persist.pc = "txn" THEN persist ELSE PersistOff
    /\ UNCHANGED <<chan, scans, disk, worktree, db, txn, backlog, runs, touches, hist>>

\* The process dies during a run: memory is lost, an open write transaction is
\* never committed, and the store is what was last committed.
Crash ==
    /\ phase = "running"
    /\ phase' = "idle"
    /\ result' = "Crashed"
    /\ txn' = None
    /\ db' = IF txn = None THEN db ELSE txn_dropped(db, txn[1])
    /\ backlog' = EmptyBacklog
    /\ scan' = ScanOff
    /\ paths_to_digest' = <<>>
    /\ workers' = WorkersOff
    /\ files' = <<>>
    /\ check' = "off"
    /\ needs_summary' = <<>>
    /\ summ' = SummOff
    /\ summarized' = <<>>
    /\ persist' = PersistOff
    /\ UNCHANGED <<chan, scans, disk, worktree, runs, touches, hist>>

Next ==
    \/ \E p \in Paths, f \in FileStates : Touch(p, f)
    \/ StartRun
    \/ StartUpdatedRun
    \/ ScanBegin
    \/ ScanEntry
    \/ ScanUpdatedEntry
    \/ ScanSend
    \/ ScanEnd
    \/ \E w \in Workers : DigestRecv(w)
    \/ \E w \in Workers : DigestFile(w)
    \/ CheckFile
    \/ CheckEnd
    \/ SummRecv
    \/ SummResponse
    \/ SummEnd
    \/ PersistRecv
    \/ PersistBegin
    \/ PersistPutDigest
    \/ PersistPutSummary
    \/ PersistCommit
    \/ PersistEnd
    \/ RunOk
    \/ RunErr
    \/ Crash

Spec == Init /\ [][Next]_vars

\* A step of one of the spawned tasks or of the joined run future. The executor
\* keeps polling every task that can make progress, the provider answers every
\* request, and the timer of chunks_timeout fires.
TaskStep ==
    \/ ScanBegin
    \/ ScanEntry
    \/ ScanUpdatedEntry
    \/ ScanSend
    \/ ScanEnd
    \/ \E w \in Workers : DigestRecv(w)
    \/ \E w \in Workers : DigestFile(w)
    \/ CheckFile
    \/ CheckEnd
    \/ SummRecv
    \/ SummResponse
    \/ SummEnd
    \/ PersistRecv
    \/ PersistBegin
    \/ PersistPutDigest
    \/ PersistPutSummary
    \/ PersistCommit
    \/ PersistEnd
    \/ RunOk
    \/ RunErr

\* The program under a fair executor, over MaxFairRuns runs; starting a run,
\* changing the disk and crashing remain optional.
FairStartRun == runs < MaxFairRuns /\ Spawn(None)

FairStartUpdatedRun ==
    /\ runs < MaxFairRuns
    /\ \E updated_entries \in UpdatedEntriesSets : Spawn(Some(updated_entries))

FairNext ==
    \/ \E p \in Paths, f \in FileStates : Touch(p, f)
    \/ FairStartRun
    \/ FairStartUpdatedRun
    \/ TaskStep
    \/ Crash

FairSpec == Init /\ [][FairNext]_vars /\ WF_vars(TaskStep)

\* ------------------------------------------------------- a bounded channel
\* The four channel::bounded(cap) of the pipeline, each with the number of tasks
\* that send on it.
Channels ==
    {[ChanOff EXCEPT !.name = "paths_to_digest", !.cap = PathsToDigestCap, !.senders = 1],
     [ChanOff EXCEPT !.name = "files", !.cap = FilesCap, !.senders = NumCpus],
     [ChanOff EXCEPT !.name = "needs_summary", !.cap = NeedsSummaryCap, !.senders = 1],
     [ChanOff EXCEPT !.name = "summarized", !.cap = SummarizedCap, !.senders = 1]}

program == <<disk, worktree, db, txn, backlog, phase, result, runs, touches, pipeline, hist,
             scans>>

\* One of the channels, just created, between a stage that has many items to send
\* and a slow receiver; the rest of the program is left aside.
ChanInit ==
    /\ chan \in Channels
    /\ disk = [p \in Paths |-> None]
    /\ worktree = [p \in Paths |-> None]
    /\ db = EmptyStore
    /\ txn = None
    /\ backlog = EmptyBacklog
    /\ phase = "idle"
    /\ result = "None"
    /\ runs = 0
    /\ touches = 0
    /\ scan = ScanOff
    /\ paths_to_digest = <<>>
    /\ workers = WorkersOff
    /\ files = <<>>
    /\ check = "off"
    /\ needs_summary = <<>>
    /\ summ = SummOff
    /\ summarized = <<>>
    /\ persist = PersistOff
    /\ hist = HistOff
    /\ scans = ScansOff

\* A sending task has an item and calls tx.send(item).
ChanOffer ==
    /\ chan.holding < chan.senders
    /\ chan.offered < chan.cap + MaxOverflow
    /\ chan' = [chan EXCEPT !.holding = @ + 1, !.offered = @ + 1]
    /\ UNCHANGED program

\* Mutant of ChanSend: try_send, which gives the item up when the channel is full.
ChanTrySend ==
    /\ chan.holding > 0
    /\ chan' = IF chan.len < chan.cap
               THEN [chan EXCEPT !.holding = @ - 1, !.len = @ + 1, !.sent = @ + 1]
               ELSE [chan EXCEPT !.holding = @ - 1]
    /\ UNCHANGED program

\* tx.send(item).await completes: the channel had room for the item.
ChanSend ==
    /\ chan.holding > 0
    /\ chan.len < chan.cap
    /\ chan' = [chan EXCEPT !.holding = @ - 1, !.len = @ + 1, !.sent = @ + 1]
    /\ UNCHANGED program

\* The receiving task takes the oldest item.
ChanRecv ==
    /\ chan.len > 0
    /\ chan.received < MaxReceives
    /\ chan' = [chan EXCEPT !.len = @ - 1, !.received = @ + 1]
    /\ UNCHANGED program

ChanNext ==
    \/ ChanOffer
    \/ ChanSend
    \/ ChanRecv

ChanSpec == ChanInit /\ [][ChanNext]_vars

\* ------------------------------------------------------- concurrent scans
\* The paths a full scan passes to add_to_backlog: the files of the snapshot.
RECURSIVE FullTodo(_, _)
FullTodo(tree, i) ==
    IF i > Len(FileOrder) THEN <<>>
    ELSE (IF tree[FileOrder[i]] = None THEN <<>> ELSE <<FileOrder[i]>>) \o FullTodo(tree, i + 1)

\* The paths a delta scan passes to add_to_backlog: live entries that are files
\* of the snapshot.
RECURSIVE DeltaTodo(_, _)
DeltaTodo(tree, updated) ==
    IF updated = <<>> THEN <<>>
    ELSE (IF Head(updated).change \in LiveChanges /\ tree[Head(updated).path] # None
          THEN <<Head(updated).path>> ELSE <<>>)
         \o DeltaTodo(tree, Tail(updated))

\* A full scan and a delta scan have been started on the same SummaryIndex over
\* the same snapshot; only their Scanner tasks are followed.
ScansInit ==
    /\ disk \in [Paths -> InitFileStates]
    /\ worktree = disk
    /\ db = EmptyStore
    /\ txn = None
    /\ backlog = EmptyBacklog
    /\ phase = "idle"
    /\ result = "None"
    /\ runs = 0
    /\ touches = 0
    /\ scan = ScanOff
    /\ paths_to_digest = <<>>
    /\ workers = WorkersOff
    /\ files = <<>>
    /\ check = "off"
    /\ needs_summary = <<>>
    /\ summ = SummOff
    /\ summarized = <<>>
    /\ persist = PersistOff
    /\ hist = HistOff
    /\ chan = ChanOff
    /\ \E updated_entries \in UpdatedEntriesSets :
         scans = [ScansOff EXCEPT
                    !.proc = [s \in Scanners |->
                                [pc |-> "next",
                                 todo |-> IF s = "full" THEN FullTodo(disk, 1)
                                          ELSE DeltaTodo(disk, updated_entries),
                                 read |-> <<>>]]]

besides == <<disk, worktree, db, txn, phase, result, runs, touches, pipeline, hist, chan>>

\* Mutant of LockFree: the backlog is used without taking its lock.
LockIgnored == TRUE

\* backlog.lock() can return: no task holds the Mutex.
LockFree == scans.lock = None

\* The head of add_to_backlog for the task's next entry: digest_db.get and the
\* mtime comparison; or the end of the task's loop.
LookUp(s) ==
    /\ scans.proc[s].pc = "next"
    /\ LET todo == scans.proc[s].todo IN
       IF todo = <<>>
       THEN scans' = [scans EXCEPT !.proc[s].pc = "done"]
       ELSE IF needs_recheck(db.file_digest_db, Head(todo), worktree[Head(todo)][1])
       THEN scans' = [scans EXCEPT !.proc[s].pc = "lock"]
       ELSE scans' = [scans EXCEPT !.proc[s].todo = Tail(todo)]
    /\ UNCHANGED <<backlog, besides>>

\* let mut backlog = backlog.lock()
LockBacklog(s) ==
    /\ scans.proc[s].pc = "lock"
    /\ LockFree
    /\ scans' = [scans EXCEPT !.lock = Some(s), !.proc[s].pc = "insert"]
    /\ UNCHANGED <<backlog, besides>>

\* backlog.insert(path, size, mtime)
InsertEntry(s) ==
    /\ scans.proc[s].pc = "insert"
    /\ LET path == Head(scans.proc[s].todo) IN
       /\ backlog' = backlog_insert(backlog, path, Len(worktree[path][1].contents),
                                    worktree[path][1].mtime)
       /\ scans' = [scans EXCEPT !.proc[s].pc = "check", !.ins[path] = @ + 1]
    /\ UNCHANGED besides

\* if backlog.needs_drain(): otherwise the guard is dropped and Vec::new() returned.
CheckNeedsDrain(s) ==
    /\ scans.proc[s].pc = "check"
    /\ IF backlog_needs_drain(backlog)
       THEN scans' = [scans EXCEPT !.proc[s].pc = "drain"]
       ELSE scans' = [scans EXCEPT !.lock = None, !.proc[s].pc = "next",
                                   !.proc[s].todo = Tail(@)]
    /\ UNCHANGED <<backlog, besides>>

\* backlog.drain(), first half: the entries are taken out.
DrainRead(s) ==
    /\ scans.proc[s].pc = "drain"
    /\ scans' = [scans EXCEPT !.proc[s].pc = "clear", !.proc[s].read = backlog_drain(backlog)]
    /\ UNCHANGED <<backlog, besides>>

\* backlog.drain(), second half, and the return: the backlog is left empty, the
\* batch is returned and the guard is dropped.
DrainClear(s) ==
    /\ scans.proc[s].pc = "clear"
    /\ backlog' = EmptyBacklog
    /\ scans' = [scans EXCEPT !.lock = None, !.proc[s].pc = "next",
                              !.proc[s].todo = Tail(@), !.proc[s].read = <<>>,
                              !.batches = Append(@, scans.proc[s].read)]
    /\ UNCHANGED besides

ScansNext ==
    \E s \in Scanners :
        \/ LookUp(s)
        \/ LockBacklog(s)
        \/ InsertEntry(s)
        \/ CheckNeedsDrain(s)
        \/ DrainRead(s)
        \/ DrainClear(s)

ScansSpec == ScansInit /\ [][ScansNext]_vars

\* ============================================================== properties
RunReturnedOk == phase = "idle" /\ result = "Ok"
NoFaults == hist.skipped = {} /\ hist.fatal = {}

\* The FileDigests stored for a path, under the key the Scanner reads or the key
\* the Persister writes.
RecordsOf(store, p) ==
    {store.file_digest_db[k][1] : k \in {k \in {ScanKey(p), PersistKey(p)} : store.file_digest_db[k] # None}}

\* The files of the snapshot the run took.
TreeFiles == {p \in Paths : worktree[p] # None}

\* C1: a full scan that follows a completed full scan with no on-disk change in
\* between inserts nothing into the Backlog.
C1_SecondScanInsertsNothing == hist.unchanged => hist.inserted = {}

\* C2: a first run over a tree holding one readable file that the Scanner found
\* changed (it has no FileDigest), with no failure and a
\* provider that answers with text, ends with the file's FileDigest (its scanned
\* mtime, the digest of its contents) and the summary for that digest stored.
C2_FirstRunConverges ==
    \A p \in Paths :
        (/\ RunReturnedOk
         /\ runs = 1
         /\ hist.full
         /\ TreeFiles = {p}
         /\ hist.inserted = {p}
         /\ NoFaults)
        => /\ [mtime |-> worktree[p][1].mtime, digest |-> Blake3(worktree[p][1].contents)]
                \in RecordsOf(db, p)
           /\ db.summary_db[Blake3(worktree[p][1].contents)] # None

\* Both paths of the tree hold the same contents c and this first run, a full
\* scan, inserted both.
TwinsOf(c) ==
    /\ runs = 1
    /\ hist.full
    /\ TreeFiles = Paths
    /\ \A p \in Paths : worktree[p][1].contents = c
    /\ hist.inserted = Paths

\* C3: in a run that digests two paths with identical contents and no stored
\* summary for their digest, the provider is called once for that digest.
C3_OneProviderCallPerDigest ==
    \A c \in Contents : TwinsOf(c) => hist.calls[Blake3(c)] <= 1

\* C4: after a successful run over two paths with identical contents, both paths
\* have a FileDigest with that digest and the digest has its summary.
C4_BothTwinsRecorded ==
    \A c \in Contents :
        (TwinsOf(c) /\ RunReturnedOk /\ NoFaults)
        => /\ \A p \in Paths : \E r \in RecordsOf(db, p) : r.digest = Blake3(c)
           /\ db.summary_db[Blake3(c)] # None

\* The provider call made for path p in this run failed or returned empty text.
ProviderFailed(p) == <<"provider", p>> \in hist.skipped

\* C5: when the provider call for a file fails or returns empty text, the run
\* commits no FileDigest for the file's path and no summary for its digest, and a
\* scan of the unchanged file selects it again.
C5_ProviderFailureLeavesNothing ==
    \A p \in Paths :
        (ProviderFailed(p) /\ worktree[p] # None)
        => /\ \A f \in hist.committed : f.path # path_display_to_string(p)
           /\ \A f \in hist.committed : f.digest # Blake3(worktree[p][1].contents)
           /\ disk[p] = worktree[p] => needs_recheck(db.file_digest_db, p, disk[p][1])

\* C6: in every committed state of the store, each FileDigest's digest has a
\* summary in summary_db.
C6_DigestHasSummary ==
    \A k \in Keys :
        db.file_digest_db[k] # None => db.summary_db[db.file_digest_db[k][1].digest] # None

C6_Witness ==
    /\ \E k \in Keys : db.file_digest_db[k] # None
    /\ hist.fatal # {}

\* A step that ends the Persister's write transaction without committing it: a
\* put or the commit failed, or the process died.
FlushAborted ==
    /\ txn # None
    /\ txn' = None
    /\ hist'.fatal # hist.fatal \/ phase' # phase

\* C7: a flush aborted before its commit leaves the store as it was when the
\* flush began.
C7_AbortedFlushInvisible == [][FlushAborted => db' = persist.before[1]]_vars

C7_Witness ==
    /\ "commit" \in hist.fatal
    /\ txn = None
    /\ persist.pc = "err"

\* C8: a failed read transaction, write transaction, put, commit or model lookup
\* makes its stage task return an error, a run with such a failure never returns
\* Ok, and a run that returned Ok had all five stage tasks return Ok.
C8_FatalAbortsRun ==
    /\ phase = "running" =>
        /\ "scan_read_txn" \in hist.fatal => scan.pc = "err"
        /\ "check_read_txn" \in hist.fatal => check = "err"
        /\ "model" \in hist.fatal => summ.pc = "err"
        /\ hist.fatal \cap {"write_txn", "put", "commit"} # {} => persist.pc = "err"
    /\ (phase = "idle" /\ hist.fatal # {}) => result # "Ok"
    /\ RunReturnedOk =>
        /\ scan.pc = "done"
        /\ \A w \in Workers : workers[w].pc = "done"
        /\ check = "done"
        /\ summ.pc = "done"
        /\ persist.pc = "done"

C8_Witness ==
    /\ phase = "idle"
    /\ result = "Err"
    /\ "model" \in hist.fatal

\* The paths that met a per-file failure in this run.
SkippedPaths == {s[2] : s \in hist.skipped}

\* No stage task has returned an error without a fatal failure.
ErrOnlyFromFatal ==
    (\/ phase = "running" /\ "err" \in {scan.pc, check, summ.pc, persist.pc}
     \/ phase = "idle" /\ result = "Err")
    => hist.fatal # {}

\* When a first run returns Ok, nothing was committed for a path that met a
\* per-file failure, and every other path the Scanner sent on was committed or
\* found in the summary cache.
OthersContinue ==
    (RunReturnedOk /\ runs = 1) =>
        /\ \A p \in SkippedPaths :
              \A f \in hist.committed : f.path # path_display_to_string(p)
        /\ \A q \in hist.inserted \ SkippedPaths :
              \/ backlog[q] # None
              \/ db.summary_db[Blake3(worktree[q][1].contents)] # None

\* A step that meets a per-file failure forwards nothing and fails no stage.
SkipForwardsNothing ==
    (phase = "running" /\ phase' = "running" /\ hist'.skipped # hist.skipped)
    => /\ backlog' = backlog
       /\ scan'.pending = scan.pending
       /\ paths_to_digest' = paths_to_digest
       /\ Len(files') <= Len(files)
       /\ needs_summary' = needs_summary
       /\ summarized' = summarized
       /\ hist'.committed = hist.committed
       /\ ~("err" \in {scan'.pc, check', summ'.pc, persist'.pc})
            \/ "err" \in {scan.pc, check, summ.pc, persist.pc}

C10_KeyAgreement ==
    \A p \in Paths :
        \A f \in hist.committed :
            f.path = path_display_to_string(p)
            => /\ f.path = db_key_for_path(p)
               /\ db.file_digest_db[ScanKey(p)] # None

\* ---------------------------------------------------------------------- C11
\* The scan task has completed after inserting exactly N+1 entries into a backlog
\* that was empty when the run began (N = MaxFilesBeforeResummarize).
InsertedOneOverThreshold ==
    /\ scan.pc = "done"
    /\ hist.emptyStart
    /\ Len(hist.sizes) = MaxFilesBeforeResummarize + 1

\* Exactly one drain happened, its batch was sent to the Digester and holds every
\* inserted entry, and the backlog is empty.
OneDrainOfAll ==
    /\ Len(hist.drained) = 1
    /\ hist.sent = hist.drained
    /\ Len(hist.drained[1]) = MaxFilesBeforeResummarize + 1
    /\ {hist.drained[1][j].path : j \in 1..Len(hist.drained[1])} = hist.inserted
    /\ \A j \in 1..Len(hist.drained[1]) :
          hist.drained[1][j].mtime = worktree[hist.drained[1][j].path][1].mtime
    /\ backlog = EmptyBacklog

RECURSIVE SumSizes(_, _)
SumSizes(sizes, n) == IF n = 0 THEN 0 ELSE sizes[n] + SumSizes(sizes, n - 1)

\* The first N entries together stay within the size threshold, so that needs_drain
\* is first true at the (N+1)th insertion.
NoEarlySizeDrain ==
    SumSizes(hist.sizes, MaxFilesBeforeResummarize) <= MaxBytesBeforeResummarize

\* C11 as stated: a scan that inserts exactly N+1 entries into an initially empty
\* backlog drains exactly once, sends that one batch holding all N+1 entries and
\* leaves the backlog empty.
C11_ThresholdDrain == InsertedOneOverThreshold => OneDrainOfAll

\* C11 amended: the same, provided the size threshold is not crossed by the
\* first N entries.
C11_ThresholdDrainBySize ==
    (InsertedOneOverThreshold /\ NoEarlySizeDrain) => OneDrainOfAll

C11_Witness ==
    /\ InsertedOneOverThreshold
    /\ NoEarlySizeDrain
    /\ OneDrainOfAll
    /\ phase = "running"

\* ---------------------------------------------------------------------- C12
\* The Persister holds a partial chunk: at least one item, fewer than ChunkSize.
PartialChunk ==
    /\ phase = "running"
    /\ persist.pc = "recv"
    /\ persist.chunk # <<>>
    /\ Len(persist.chunk) < ChunkSize

\* A partial chunk can be flushed at once, whatever the channel holds and whether
\* or not the Summarizer has ended.
FlushNeedsNoMore == PartialChunk => ENABLED PersistBegin

\* The run has failed: a stage returned an error, the run returned Err, or the
\* process crashed.
RunFailed == hist.fatal # {} \/ AnyErr \/ result \in {"Err", "Crashed"}

\* A commit makes every item of the chunk visible together.
CommitsWholeChunk ==
    hist'.committed # hist.committed =>
        \A j \in 1..Len(persist.chunk) :
            LET file == persist.chunk[j] IN
            /\ file \in hist'.committed
            /\ db'.file_digest_db[file.path] # None
            /\ db'.file_digest_db[file.path][1].digest = file.digest
            /\ db'.summary_db[file.digest] = Some(file.summary)

\* Items leave the chunk only all together, by a commit or by a failure of the run.
ChunkLeavesByCommit ==
    (persist.chunk # <<>> /\ persist'.chunk # persist.chunk) =>
        \/ /\ persist'.chunk # <<>>
           /\ Len(persist'.chunk) = Len(persist.chunk) + 1
           /\ SubSeq(persist'.chunk, 1, Len(persist.chunk)) = persist.chunk
        \/ /\ persist'.chunk = <<>>
           /\ \/ \A j \in 1..Len(persist.chunk) : persist.chunk[j] \in hist'.committed
              \/ RunFailed'

\* C12: a partial chunk is flushed by the timer alone, in one write transaction
\* that commits the whole chunk; and every SummarizedFile the Persister has
\* received is eventually committed unless the run fails.
C12_TimedFlush ==
    /\ []FlushNeedsNoMore
    /\ [][CommitsWholeChunk /\ ChunkLeavesByCommit]_vars
    /\ (persist.chunk # <<>>) ~> (persist.chunk = <<>>)

\* A partial chunk was committed while the Summarizer was still running.
C12_Witness ==
    /\ phase = "running"
    /\ ~SummEnded
    /\ hist.committed # {}
    /\ Cardinality(hist.committed) < ChunkSize
    /\ hist.fatal = {}
    /\ persist.pc = "recv"
    /\ persist.chunk = <<>>

\* ---------------------------------------------------------------------- C13
\* C13: a SummaryRecord exists for a digest only if the provider answered with
\* non-empty text for contents of that digest; and after a run that returned Ok,
\* every digest the provider answered with text for during the run has a
\* SummaryRecord.
C13_SummaryRecordExistence ==
    /\ \A d \in Digests : db.summary_db[d] # None => d \in hist.everAnswered
    /\ RunReturnedOk => \A d \in hist.answered : db.summary_db[d] # None

\* A run returned Ok after the provider answered with text for one digest and
\* failed for the other.
C13_Witness ==
    /\ RunReturnedOk
    /\ Cardinality(hist.answered) = 1
    /\ \E p \in Paths : <<"provider", p>> \in hist.skipped
    /\ \E d \in Digests : db.summary_db[d] # None
    /\ \E d \in Digests : db.summary_db[d] = None

\* ---------------------------------------------------------------------- C14
\* The paths of the live file entries the Scanner has already passed in this
\* scan without a failed lookup.
ScannedPaths ==
    IF scan.pc \notin {"scan", "send"} THEN {}
    ELSE LET passed ==
                 IF scan.updated = None
                 THEN {FileOrder[i] : i \in 1..(scan.idx - 1)}
                 ELSE {scan.updated[1][i].path :
                          i \in {j \in 1..(scan.idx - 1) :
                                    scan.updated[1][j].change \in LiveChanges}}
         IN  {q \in passed : worktree[q] # None /\ <<"digest_get", q>> \notin hist.skipped}

\* The decision rule: no FileDigestRecord under the path's key, or a recorded
\* mtime that differs from the entry's.
MustInsert(digest_db, path, entry) ==
    \/ digest_db[db_key_for_path(path)] = None
    \/ digest_db[db_key_for_path(path)][1].mtime # entry.mtime

\* C14: a live file entry is inserted into the backlog if and only if no
\* FileDigestRecord exists for its path or the recorded mtime differs from the
\* entry's mtime; an entry without mtime and without record is inserted.
C14_ScannerDecisionRule ==
    \A q \in ScannedPaths :
        q \in hist.inserted <=> MustInsert(scan.snap[1], q, worktree[q][1])

\* ---------------------------------------------------------------------- C15
\* The CacheChecker takes a file, its lookup succeeds and the task goes on.
CheckedFile ==
    /\ phase = "running" /\ phase' = "running"
    /\ check = "recv" /\ check' = "recv"
    /\ files # <<>> /\ files' = Tail(files)
    /\ hist'.skipped = hist.skipped
    /\ hist'.fatal = hist.fatal

\* The file is forwarded unchanged exactly when its digest has no SummaryRecord.
ForwardsIffMiss ==
    CheckedFile =>
        IF db.summary_db[Head(files).digest] = None
        THEN needs_summary' = Append(needs_summary, Head(files))
        ELSE needs_summary' = needs_summary

\* After a run that returned Ok, the run has committed nothing for the path of a
\* cache hit.
HitWritesNoRecord ==
    RunReturnedOk =>
        \A q \in hist.hits :
            \A file \in hist.committed : file.path # path_display_to_string(q)

\* After a run that returned Ok, with the disk as the run saw it, the Scanner's
\* comparison selects the path of a cache hit again.
HitSelectedAgain ==
    (RunReturnedOk /\ worktree = disk) =>
        \A q \in hist.hits : needs_recheck(db.file_digest_db, q, disk[q][1])

\* C15: a file is forwarded to the Summarizer, unchanged, if and only if its
\* digest has no SummaryRecord at lookup time; on a cache hit the run writes no
\* FileDigestRecord for the path, and the next scan selects the path again.
C15_CacheCheckerFilter ==
    /\ [][ForwardsIffMiss]_vars
    /\ [](HitWritesNoRecord /\ HitSelectedAgain)

\* ---------------------------------------------------------------------- C16
RECURSIVE SumCalls(_)
SumCalls(ds) ==
    IF ds = {} THEN 0
    ELSE LET d == CHOOSE x \in ds : TRUE IN hist.calls[d] + SumCalls(ds \ {d})

\* Provider requests issued and not yet answered.
Outstanding == SumCalls(Digests) - hist.responses

\* While the run is on: one request per file received (none for the file at
\* which the model could not be resolved), and at most one request outstanding,
\* which is the one the Summarizer is waiting for.
OneCallPerMiss ==
    phase = "running" =>
        /\ SumCalls(Digests) = hist.received - (IF "model" \in hist.fatal THEN 1 ELSE 0)
        /\ Outstanding \in {0, 1}
        /\ Outstanding = 1 <=> summ.pc = "calling"

\* The provider's answer arrives: a SummarizedFile with the file's path, mtime and
\* digest is forwarded exactly when the answer is non-empty text (unless the
\* Persister is gone, which fails the stage).
ForwardsIffText ==
    (phase = "running" /\ phase' = "running" /\ summ.pc = "calling" /\ summ'.pc # "calling") =>
        LET file == summ.file[1] IN
        /\ hist'.responses = hist.responses + 1
        /\ IF hist'.lastText
           THEN \/ /\ summ'.pc = "recv"
                   /\ summarized' = Append(summarized,
                          [path |-> file.path, mtime |-> file.mtime, digest |-> file.digest,
                           summary |-> ProviderText(file.contents)])
                \/ /\ PersistEnded
                   /\ summ'.pc = "err"
                   /\ summarized' = summarized
           ELSE /\ summ'.pc = "recv"
                /\ summarized' = summarized

\* C16: at most one provider request is outstanding, the Summarizer issues
\* exactly one request for each file it receives, and it forwards a
\* SummarizedFile with the same path, mtime and digest exactly when the response
\* is non-empty.
C16_SequentialOneCallPerMiss ==
    /\ []OneCallPerMiss
    /\ [][ForwardsIffText]_vars

\* Two files were received, the first answered with text and forwarded, the
\* second is waiting for its answer.
C16_Witness ==
    /\ phase = "running"
    /\ hist.received = 2
    /\ hist.responses = 1
    /\ hist.lastText
    /\ summ.pc = "calling"

\* ---------------------------------------------------------------------- C17
\* Occurrences of path q in a sequence of (path, mtime) pairs, in a sequence of
\* batches, and in the batches the workers are working on.
RECURSIVE OccPairs(_, _)
OccPairs(q, pairs) ==
    IF pairs = <<>> THEN 0
    ELSE (IF Head(pairs).path = q THEN 1 ELSE 0) + OccPairs(q, Tail(pairs))

RECURSIVE OccBatches(_, _)
OccBatches(q, batches) ==
    IF batches = <<>> THEN 0
    ELSE OccPairs(q, Head(batches)) + OccBatches(q, Tail(batches))

RECURSIVE OccWorkers(_, _)
OccWorkers(q, n) ==
    IF n = 0 THEN 0 ELSE OccPairs(q, workers[n].pairs) + OccWorkers(q, n - 1)

\* Every batch the Scanner sent is in the channel or was received once.
BatchReceivedOnce == hist.sent = hist.taken \o paths_to_digest

\* Every pair received is still to be worked on, or has yielded one
\* UnsummarizedFile, or its load has failed; pairs are dropped only by a worker
\* that returned on a failed send.
PairYieldsOneFile ==
    \A q \in Paths :
        LET accounted == hist.emitted[q] + hist.loadFailed[q] + OccWorkers(q, NumCpus)
        IN  /\ accounted <= OccBatches(q, hist.taken)
            /\ hist.stopped = {} => accounted = OccBatches(q, hist.taken)

\* No worker ends with an error: the Digester task returns Ok(()).
DigesterReturnsOk == \A w \in Workers : workers[w].pc \in {"off", "recv", "work", "done"}

\* A worker whose send fails returns, and the step changes no other worker.
StopsAlone ==
    \A w \in Workers :
        (phase' = "running" /\ w \in hist'.stopped /\ w \notin hist.stopped) =>
            /\ workers'[w].pc = "done"
            /\ \A v \in Workers \ {w} : workers'[v] = workers[v]

\* C17: every batch is received by exactly one worker, every pair yields at most
\* one UnsummarizedFile (exactly one when the load succeeds and the output
\* channel is open, none when the load fails), a worker whose send fails stops
\* alone, and the Digester task returns Ok.
C17_DigesterExactlyOnce ==
    /\ [](phase = "running" => (BatchReceivedOnce /\ PairYieldsOneFile))
    /\ []DigesterReturnsOk
    /\ [][StopsAlone]_vars

\* Two batches were received, one worker has returned on a failed send and the
\* other is still working.
C17_Witness ==
    /\ phase = "running"
    /\ Len(hist.taken) = 2
    /\ hist.stopped # {}
    /\ \E v \in Workers : workers[v].pc = "work"

\* ---------------------------------------------------------------------- C18
\* The channel never holds more items than its capacity.
WithinCapacity == chan.len <= chan.cap

\* Every item offered was sent or is still held by its sender, and every item
\* sent was received once or is still in the channel.
NothingLost ==
    /\ chan.offered = chan.sent + chan.holding
    /\ chan.sent = chan.received + chan.len

\* While the channel is full no send completes and no sender gives its item up.
WaitsWhenFull ==
    chan.len = chan.cap => (chan'.sent = chan.sent /\ chan'.holding >= chan.holding)

EndsInTurn ==
    /\ \A w \in Workers :
          (workers[w].pc = "done" /\ w \notin hist.stopped) =>
              (ScanEnded /\ paths_to_digest = <<>>)
    /\ check = "done" => (DigestEnded /\ files = <<>>)
    /\ summ.pc = "done" => (CheckEnded /\ needs_summary = <<>>)
    /\ persist.pc = "done" => (SummEnded /\ summarized = <<>> /\ persist.chunk = <<>>)

\* C19: under fair scheduling a run that has started eventually completes, with
\* the stages ending in turn behind the Scanner; a stage's error does not leave
\* the run waiting.
C19_RunTerminates ==
    /\ []EndsInTurn
    /\ [][(phase = "running" /\ AnyErr /\ phase' = "idle") => result' \in {"Err", "Crashed"}]_vars
    /\ (phase = "running") ~> (phase = "idle")

\* A run over two files has returned Ok with both committed.
C19_Witness ==
    /\ RunReturnedOk
    /\ Cardinality(hist.committed) = 2
    /\ AllOk

\* ---------------------------------------------------------------------- C20
\* Presence of path q in the backlog (0 or 1).
InBacklog(q) == IF backlog[q] = None THEN 0 ELSE 1

\* An inserted path is in the backlog or in a drained batch, and it is there at
\* most once for each of its insertions.
EntryKept ==
    \A q \in Paths :
        /\ scans.ins[q] > 0 => InBacklog(q) + OccBatches(q, scans.batches) >= 1
        /\ InBacklog(q) + OccBatches(q, scans.batches) <= scans.ins[q]

\* A drain returns every entry present at that moment and leaves the backlog empty.
DrainTakesAll ==
    scans'.batches # scans.batches =>
        /\ backlog' = EmptyBacklog
        /\ scans'.batches = Append(scans.batches, backlog_drain(backlog))

\* C20: with a full scan and a delta scan running at once on the shared backlog,
\* every inserted entry is in the backlog or in exactly one drained batch, none is
\* lost, no path is in two batches for one insertion, and a drain returns every
\* entry present and leaves the backlog empty.
C20_BacklogAtomicity ==
    /\ []EntryKept
    /\ [][DrainTakesAll]_vars

\* Both scans are done, both inserted the same path, and batches were drained
\* while the other scan was waiting for the lock.
C20_Witness ==
    /\ \A s \in Scanners : scans.proc[s].pc = "done"
    /\ \E q \in Paths : scans.ins[q] = 2
    /\ Len(scans.batches) >= 2

\* ---------------------------------------------------------------------- C21
\* The FileDigest committed under key k belongs to a path whose key k is; its
\* mtime is one the Scanner put into the backlog for that path; the Digester was
\* given that (path, mtime) pair and read contents whose digest is the record's;
\* and the summary stored under that digest is text the provider answered when
\* asked about those contents.
RecordTraced(store, k) ==
    \E f \in hist.digested :
        /\ PersistKey(f.path) = k
        /\ f.mtime = store.file_digest_db[k][1].mtime
        /\ f.mtime \in hist.scanned[f.path]
        /\ Blake3(f.contents) = store.file_digest_db[k][1].digest
        /\ store.summary_db[Blake3(f.contents)] # None
        /\ [contents |-> f.contents, text |-> store.summary_db[Blake3(f.contents)][1]]
               \in hist.responded

\* C21: every FileDigestRecord the Persister commits for a path carries the mtime
\* the Scanner put into the backlog for that path and the digest the Digester
\* computed from the contents it read for that path, and the SummaryRecord under
\* that digest is the provider's response for those same contents; no stage mixes
\* the path, mtime, digest or summary of different files.
C21_RecordProvenance ==
    [][\A k \in Keys :
         db'.file_digest_db[k] # db.file_digest_db[k] =>
             /\ db'.file_digest_db[k] # None
             /\ RecordTraced(db', k)]_vars

\* Two files with different contents and different mtimes went through the
\* pipeline together and both have committed records.
C21_Witness ==
    /\ \A q \in Paths : db.file_digest_db[PersistKey(q)] # None
    /\ db.file_digest_db[PersistKey(PathA)][1].digest
          # db.file_digest_db[PersistKey(PathB)][1].digest
    /\ db.file_digest_db[PersistKey(PathA)][1].mtime
          # db.file_digest_db[PersistKey(PathB)][1].mtime
    /\ hist.inserted = Paths
    /\ Cardinality(hist.committed) = 2
====
